---------------------------- MODULE Spec2Model ----------------------------
(***************************************************************************)
(* A model of tapchannel.AuxTrafficShaper (aux_traffic_shaper.go): the     *)
(* channel classifier HandleTraffic, the bandwidth estimator               *)
(* PaymentBandwidth, the HTLC rewriter ProduceHtlcExtraData and the        *)
(* Start/Stop lifecycle around the embedded fn.ContextGuard.               *)
(*                                                                         *)
(* Amounts are Go uint64 values (lnwire.MilliSatoshi, asset units).  TLC's *)
(* own integers are 32 bits wide, so a uint64 is kept here as its base-256 *)
(* digits, least significant first, without leading zero digits (0 is the  *)
(* empty sequence); every arithmetic operator below is exact, and the      *)
(* unsigned 64-bit operators cut their result to eight digits as the       *)
(* machine does.                                                            *)
(***************************************************************************)
EXTENDS Integers, Sequences, FiniteSets, TLC

(***************************************************************************)
(* Exact unsigned arithmetic on digit sequences.                           *)
(***************************************************************************)

\* One digit of the representation is one byte of the uint64.
Radix == 256

\* A uint64 has eight bytes.
U64Digits == 8

Min(a, b) == IF a <= b THEN a ELSE b

RECURSIVE Norm(_)
\* Drops the leading (most significant, last) zero digits.
Norm(s) ==
    IF s = <<>> THEN <<>>
    ELSE IF s[Len(s)] = 0 THEN Norm(SubSeq(s, 1, Len(s) - 1))
    ELSE s

RECURSIVE Big(_)
\* The digits of a (small) natural number.
Big(n) == IF n = 0 THEN <<>> ELSE <<n % Radix>> \o Big(n \div Radix)

Rest(s) == IF s = <<>> THEN <<>> ELSE Tail(s)

Low(s) == IF s = <<>> THEN 0 ELSE Head(s)

RECURSIVE AddC(_, _, _)
AddC(a, b, c) ==
    IF a = <<>> /\ b = <<>> THEN (IF c = 0 THEN <<>> ELSE <<c>>)
    ELSE LET t == Low(a) + Low(b) + c
         IN  <<t % Radix>> \o AddC(Rest(a), Rest(b), t \div Radix)

\* a + b, exact.
BigAdd(a, b) == AddC(a, b, 0)

RECURSIVE SubB(_, _, _)
SubB(a, b, w) ==
    IF a = <<>> THEN <<>>
    ELSE LET t == Low(a) - Low(b) - w
         IN  IF t < 0 THEN <<t + Radix>> \o SubB(Rest(a), Rest(b), 1)
             ELSE <<t>> \o SubB(Rest(a), Rest(b), 0)

\* a - b, for a >= b.
BigSub(a, b) == Norm(SubB(a, b, 0))

RECURSIVE LessFrom(_, _, _)
LessFrom(a, b, i) ==
    IF i = 0 THEN FALSE
    ELSE IF a[i] # b[i] THEN a[i] < b[i]
    ELSE LessFrom(a, b, i - 1)

\* a < b
BigLess(a, b) ==
    \/ Len(a) < Len(b)
    \/ Len(a) = Len(b) /\ LessFrom(a, b, Len(a))

\* a <= b
BigLeq(a, b) == ~BigLess(b, a)

RECURSIVE MulD(_, _, _)
MulD(a, d, c) ==
    IF a = <<>> THEN (IF c = 0 THEN <<>> ELSE <<c>>)
    ELSE LET t == Head(a) * d + c
         IN  <<t % Radix>> \o MulD(Tail(a), d, t \div Radix)

ShiftDigit(s) == IF s = <<>> THEN <<>> ELSE <<0>> \o s

RECURSIVE BigMul(_, _)
\* a * b, exact (the mathematical product).
BigMul(a, b) ==
    IF a = <<>> \/ b = <<>> THEN <<>>
    ELSE BigAdd(Norm(MulD(a, Head(b), 0)), ShiftDigit(BigMul(a, Tail(b))))

\* a * d for a digit d (or a small factor), exact.
BigScale(a, d) == Norm(MulD(a, d, 0))

\* The largest k in 0..15 with b * (base + k * step) <= cur.
Trial(cur, b, base, step) ==
    CHOOSE k \in 0..15 :
        /\ BigLeq(BigScale(b, base + k * step), cur)
        /\ k = 15 \/ BigLess(cur, BigScale(b, base + (k + 1) * step))

\* floor(cur / b) for cur < Radix * b: one digit of a quotient.
QuotDigit(cur, b) ==
    LET hi == Trial(cur, b, 0, 16)
    IN  16 * hi + Trial(cur, b, 16 * hi, 1)

RECURSIVE DivFrom(_, _, _)
\* Long division of the digits a[i..Len(a)] by b, most significant first.
DivFrom(a, b, i) ==
    IF i > Len(a) THEN [q |-> <<>>, r |-> <<>>]
    ELSE LET h == DivFrom(a, b, i + 1)
             cur == Norm(<<a[i]>> \o h.r)
             d == QuotDigit(cur, b)
         IN  [q |-> Norm(<<d>> \o h.q), r |-> BigSub(cur, BigScale(b, d))]

\* Quotient and remainder of a by b, for b # 0.
BigDivMod(a, b) == DivFrom(a, b, 1)

\* floor(a / b), for b # 0.
BigDiv(a, b) == BigDivMod(a, b).q

\* 2^k: the digit 2^(k mod 8) above k div 8 zero digits.
BigPow2(k) ==
    [i \in 1..(k \div 8 + 1) |-> IF i = k \div 8 + 1 THEN 2 ^ (k % 8) ELSE 0]

\* Whether a value fits the 64-bit type.
FitsU64(a) == Len(a) <= U64Digits

\* What the machine keeps of a value: its low 64 bits.
Wrap64(a) == Norm(SubSeq(a, 1, Min(Len(a), U64Digits)))

\* Go's uint64 a * b.
U64Mul(a, b) == Wrap64(BigMul(a, b))

\* Go's uint64 a + b.
U64Add(a, b) == Wrap64(BigAdd(a, b))

\* math.MaxUint64
MaxUint64 == BigSub(BigPow2(64), <<1>>)


(***************************************************************************)
(* Values, options and the TLV codec.                                      *)
(*                                                                         *)
(* An lfn.Option is the empty sequence (None) or a one-element sequence    *)
(* (Some).  A tlv.Blob is the sequence of its TLV fields, each a record    *)
(* [type, val]; bytes that are no TLV stream are a field of type           *)
(* "invalid", a record no decoder knows is a field of type "other".        *)
(***************************************************************************)

None == <<>>

Some(v) == <<v>>

IsNone(o) == o = <<>>

UnsafeFromSome(o) == o[1]

RECURSIVE SumSeq(_)
\* The uint64 sum of a sequence of amounts, as a Go loop adds them.
SumSeq(s) == IF s = <<>> THEN <<>> ELSE U64Add(Head(s), SumSeq(Tail(s)))

\* Whether the bytes parse as a TLV stream at all.
ValidStream(blob) == \A i \in 1..Len(blob) : blob[i].type # "invalid"

HasField(blob, t) == \E i \in 1..Len(blob) : blob[i].type = t

Field(blob, t) == blob[CHOOSE i \in 1..Len(blob) : blob[i].type = t].val

\* cmsg.DecodeOpenChannel: the error it returns ("" is nil).
DecodeOpenChannel(blob) ==
    IF ValidStream(blob) /\ HasField(blob, "openChannel") THEN ""
    ELSE "error decoding open channel blob"

\* cmsg.DecodeCommitment: the commitment's local and remote outputs.
DecodeCommitment(blob) ==
    IF ValidStream(blob) /\ HasField(blob, "localOutputs")
                         /\ HasField(blob, "remoteOutputs")
    THEN [err |-> "",
          val |-> [LocalOutputs |-> Field(blob, "localOutputs"),
                   RemoteOutputs |-> Field(blob, "remoteOutputs")]]
    ELSE [err |-> "invalid commitment",
          val |-> [LocalOutputs |-> <<>>, RemoteOutputs |-> <<>>]]

\* Commitment.LocalOutputs
LocalOutputs(commitment) == commitment.LocalOutputs

\* cmsg.OutputSum
OutputSum(outputs) == SumSeq(outputs)

\* rfqmsg.DecodeHtlc: the asset balances and the optional RFQ ID; a field it
\* does not know is skipped, a balance list that does not parse is an error.
DecodeHtlc(blob) ==
    IF ValidStream(blob)
    THEN [err |-> "",
          val |-> [Amounts |-> IF HasField(blob, "amounts")
                               THEN Field(blob, "amounts") ELSE <<>>,
                   RfqID |-> IF HasField(blob, "rfqID")
                             THEN Some(Field(blob, "rfqID")) ELSE None]]
    ELSE [err |-> "invalid HTLC", val |-> [Amounts |-> <<>>, RfqID |-> None]]

\* Htlc.Bytes: the amounts record always, the RFQ ID record when set.
HtlcBytes(htlc) ==
    <<[type |-> "amounts", val |-> htlc.Amounts]>>
    \o (IF IsNone(htlc.RfqID) THEN <<>>
        ELSE <<[type |-> "rfqID", val |-> UnsafeFromSome(htlc.RfqID)]>>)

\* The order the TLV stream keeps its records in.
FieldOrder == <<"amounts", "rfqID", "other", "invalid">>

RECURSIVE SerializeFrom(_, _)
SerializeFrom(records, i) ==
    IF i > Len(FieldOrder) THEN <<>>
    ELSE (IF FieldOrder[i] \in DOMAIN records
          THEN <<[type |-> FieldOrder[i], val |-> records[FieldOrder[i]]]>>
          ELSE <<>>) \o SerializeFrom(records, i + 1)

\* lnwire.CustomRecords.Serialize: the records (a map from record type to
\* value) as a stream in record-type order.
Serialize(records) == SerializeFrom(records, 1)

\* len(htlcCustomRecords)
NumRecords(records) == Cardinality(DOMAIN records)

\* lnwire.ParseCustomRecords: the stream's records as a map from record type
\* to value, by which the caller turns a blob back into custom records.
ParseCustomRecords(blob) ==
    [t \in {blob[i].type : i \in 1..Len(blob)} |-> Field(blob, t)]

RECURSIVE AmountsOf(_)
AmountsOf(balances) ==
    IF balances = <<>> THEN <<>>
    ELSE <<Head(balances).Amount>> \o AmountsOf(Tail(balances))

\* AssetBalanceListRecord.Sum
Sum(balances) == SumSeq(AmountsOf(balances))

\* rfqmsg.NewAssetBalance
NewAssetBalance(assetID, amount) == [AssetID |-> assetID, Amount |-> amount]

\* rfqmsg.ID.Scid: the channel identifier is the last part of the RFQ ID.
Scid(rfqID) == rfqID[Len(rfqID)]

(***************************************************************************)
(* Amounts.                                                                *)
(***************************************************************************)

\* lnwallet.DustLimitForSize(input.UnknownWitnessSize), in satoshis.
DefaultOnChainHtlcAmount == 354

\* btcutil.MaxSatoshi: 21 million coins of 1e8 satoshis.
MaxSatoshi == BigMul(Big(21000000), Big(100000000))

\* lnwire.NewMSatFromSatoshis
NewMSatFromSatoshis(sat) == U64Mul(sat, Big(1000))

(***************************************************************************)
(* The three operations, as functions of their arguments and of the map    *)
(* PeerAcceptedSellQuotes returns.  A result is                            *)
(*   amt      the amount returned                                          *)
(*   blob     the blob returned (None is nil)                              *)
(*   handled  HandleTraffic's boolean                                      *)
(*   err      the error returned ("" is nil)                               *)
(*   panic    whether the call ended in a run-time panic, not a return     *)
(*   queried  whether PeerAcceptedSellQuotes was called                    *)
(***************************************************************************)

Result(amt, blob, handled, err, queried) ==
    [amt |-> amt, blob |-> blob, handled |-> handled, err |-> err,
     panic |-> FALSE, queried |-> queried]

\* The run-time panic of an integer division by zero.
Panic(queried) ==
    [amt |-> <<>>, blob |-> None, handled |-> FALSE,
     err |-> "", panic |-> TRUE, queried |-> queried]

ErrNoBlob == "no commitment or TLV blob available for custom channel bandwidth estimation"
ErrDecodeCommitment == "error decoding commitment blob"
ErrDecodeHtlc == "error decoding HTLC blob"
ErrNoQuote == "no accepted quote found for RFQ ID"
ErrNoRfqID == "no RFQ ID present in HTLC blob"
ErrNoAssetID == "quote has no asset ID"

\* HandleTraffic with a decoding failure taken for an ordinary channel.
HandleTrafficLenient(fundingBlob) ==
    IF IsNone(fundingBlob) THEN Result(<<>>, None, FALSE, "", FALSE)
    ELSE LET err == DecodeOpenChannel(UnsafeFromSome(fundingBlob))
         IN  IF err # "" THEN Result(<<>>, None, FALSE, "", FALSE)
             ELSE Result(<<>>, None, TRUE, "", FALSE)

HandleTraffic(fundingBlob) ==
    IF IsNone(fundingBlob) THEN Result(<<>>, None, FALSE, "", FALSE)
    ELSE LET err == DecodeOpenChannel(UnsafeFromSome(fundingBlob))
         IN  IF err # "" THEN Result(<<>>, None, FALSE, err, FALSE)
             ELSE Result(<<>>, None, TRUE, "", FALSE)

\* The sentinel with the largest uint64 in place of the satoshi supply.
InfiniteBandwidthMaxUint64 == MaxUint64

\* The "infinite" bandwidth of an already-priced HTLC that fits the balance:
\* the number of satoshis ever in existence, in milli-satoshis.
InfiniteBandwidth == NewMSatFromSatoshis(MaxSatoshi)

\* A missing quote taken for zero bandwidth: a success, not an error.
QuoteNotFoundAsZero == Result(<<>>, None, FALSE, "", TRUE)

\* The result of both methods when the map holds no quote for the SCID.
QuoteNotFound == Result(<<>>, None, FALSE, ErrNoQuote, TRUE)

PaymentBandwidth(htlcBlob, commitmentBlob, quotesNow) ==
    IF IsNone(commitmentBlob) \/ IsNone(htlcBlob)
    THEN Result(<<>>, None, FALSE, ErrNoBlob, FALSE)
    ELSE
    LET commitment == DecodeCommitment(UnsafeFromSome(commitmentBlob))
        htlc == DecodeHtlc(UnsafeFromSome(htlcBlob))
        localBalance == OutputSum(LocalOutputs(commitment.val))
        htlcAssetAmount == Sum(htlc.val.Amounts)
        rfqID == UnsafeFromSome(htlc.val.RfqID)
        acceptedQuotes == quotesNow
        ok == Scid(rfqID) \in DOMAIN acceptedQuotes
        quote == acceptedQuotes[Scid(rfqID)]
        mSatPerAssetUnit == quote.BidPrice
    IN  IF commitment.err # ""
        THEN Result(<<>>, None, FALSE, ErrDecodeCommitment, FALSE)
        ELSE IF htlc.err # ""
        THEN Result(<<>>, None, FALSE, ErrDecodeHtlc, FALSE)
        ELSE IF htlcAssetAmount # <<>> /\ BigLeq(htlcAssetAmount, localBalance)
        THEN Result(InfiniteBandwidth, None, FALSE, "", FALSE)
        ELSE IF IsNone(htlc.val.RfqID)
        THEN Result(<<>>, None, FALSE, "", FALSE)
        ELSE IF ~ok
        THEN QuoteNotFound
        ELSE Result(U64Mul(localBalance, mSatPerAssetUnit), None, FALSE, "", TRUE)

\* The empty-records return with the on-chain minimum in place of the amount.
PassThroughAsDust(totalAmount) ==
    Result(NewMSatFromSatoshis(Big(DefaultOnChainHtlcAmount)), None, FALSE, "", FALSE)

\* The return for empty custom records: the amount as given, no blob.
PassThrough(totalAmount) == Result(totalAmount, None, FALSE, "", FALSE)

\* The on-chain amount without the conversion to milli-satoshis.
HtlcAmountInSatoshis == Big(DefaultOnChainHtlcAmount)

\* htlcAmountMSat: the amount a rewritten HTLC carries on chain.
HtlcAmountMSat == NewMSatFromSatoshis(Big(DefaultOnChainHtlcAmount))

\* uint64(totalAmount*10/mSatPerAssetUnit) / 10, for a price that is not 0.
NumAssetUnits(totalAmount, mSatPerAssetUnit) ==
    BigDiv(BigDiv(U64Mul(totalAmount, Big(10)), mSatPerAssetUnit), Big(10))

ProduceHtlcExtraData(totalAmount, htlcCustomRecords, quotesNow) ==
    IF NumRecords(htlcCustomRecords) = 0
    THEN PassThrough(totalAmount)
    ELSE
    LET htlcBlob == Serialize(htlcCustomRecords)
        htlc == DecodeHtlc(htlcBlob)
        rfqID == UnsafeFromSome(htlc.val.RfqID)
        acceptedQuotes == quotesNow
        ok == Scid(rfqID) \in DOMAIN acceptedQuotes
        quote == acceptedQuotes[Scid(rfqID)]
        mSatPerAssetUnit == quote.BidPrice
        numAssetUnits == NumAssetUnits(totalAmount, mSatPerAssetUnit)
        rewritten ==
            [htlc.val EXCEPT !.Amounts =
                <<NewAssetBalance(UnsafeFromSome(quote.AssetID), numAssetUnits)>>]
    IN  IF htlc.err # ""
        THEN Result(<<>>, None, FALSE, ErrDecodeHtlc, FALSE)
        ELSE IF BigLess(<<>>, Sum(htlc.val.Amounts))
        THEN Result(totalAmount, Some(htlcBlob), FALSE, "", FALSE)
        ELSE IF IsNone(htlc.val.RfqID)
        THEN Result(<<>>, None, FALSE, ErrNoRfqID, FALSE)
        ELSE IF ~ok
        THEN QuoteNotFound
        ELSE IF mSatPerAssetUnit = <<>>
        THEN Panic(TRUE)
        ELSE IF IsNone(quote.AssetID)
        THEN Result(<<>>, None, FALSE, ErrNoAssetID, TRUE)
        ELSE Result(HtlcAmountMSat, Some(HtlcBytes(rewritten)), FALSE, "", TRUE)

(***************************************************************************)
(* Bounds and the inputs drawn from them.                                  *)
(***************************************************************************)

\* Small amounts and prices are 0..MaxSmall.
MaxSmall == 2

\* The accepted-quote map holds at most this many quotes at a time.
MaxQuotes == 1

\* Goroutines that call Start and Stop.
NumThreads == 2

\* Goroutines that register work with the guard's wait group.
NumWorkers == 1

Small == {Big(i) : i \in 0..MaxSmall}

\* RFQ IDs; the last part is the SCID.
RfqIDs == {<<7, 1>>, <<7, 2>>}

SCIDs == {Scid(id) : id \in RfqIDs}

\* lnwire.ShortChannelID values handed to HandleTraffic.
ChanIDs == {1, 2}

BidPrices == Small \cup {Big(1000), BigPow2(63)}

Quotes == [BidPrice : BidPrices, AssetID : {None, Some("assetA")}]

Balances == Small \cup {Big(500), BigPow2(62), BigPow2(63)}

OutputLists ==
    {<<>>} \cup {<<b>> : b \in Balances} \cup {<<Big(1), b>> : b \in Small}

EncodeCommitment(local, remote) ==
    <<[type |-> "localOutputs", val |-> local],
      [type |-> "remoteOutputs", val |-> remote]>>

Garbage == <<[type |-> "invalid", val |-> <<>>]>>

CommitmentBlobs ==
    {None, Some(Garbage)}
    \cup {Some(EncodeCommitment(l, <<Big(1)>>)) : l \in OutputLists}

OpenChannelBlob == <<[type |-> "openChannel", val |-> <<Big(1000)>>]>>

FundingBlobs ==
    {None, Some(Garbage), Some(OpenChannelBlob),
     Some(EncodeCommitment(<<Big(1)>>, <<>>))}

AmountLists ==
    {<<>>, <<NewAssetBalance("assetA", Big(1)), NewAssetBalance("assetB", Big(1))>>}
    \cup {<<NewAssetBalance("assetA", n)>> : n \in Small}

NoRecords == [t \in {} |-> <<>>]

\* lnwire.CustomRecords values: a map from record type to record value.
CustomRecordSets ==
    {NoRecords, [other |-> <<>>], [invalid |-> <<>>]}
    \cup {[amounts |-> a] : a \in AmountLists}
    \cup {[rfqID |-> r] : r \in RfqIDs}
    \cup {[amounts |-> a, rfqID |-> r] : a \in AmountLists, r \in RfqIDs}

HtlcBlobs == {None} \cup {Some(Serialize(r)) : r \in CustomRecordSets}

TotalAmounts ==
    Small \cup {Big(1999), Big(12345), Big(353999), Big(354000),
                BigAdd(BigDiv(MaxUint64, Big(10)), Big(1)), MaxUint64}

(***************************************************************************)
(* The state.                                                              *)
(***************************************************************************)

VARIABLES
    quotes,     \* cfg.RfqManager's accepted sell quotes: a map SCID -> quote
    pc,         \* the caller (the forwarding switch): idle, called, returned, panicked
    call,       \* the call in progress: its method and arguments
    ret,        \* what the call returned
    startOnce,  \* sync.Once: [done, m], m the goroutine holding its mutex (0: free)
    stopOnce,   \* sync.Once, likewise
    Quit,       \* ContextGuard.Quit: open, closed, or closedTwice (the panic of
                \* closing a closed channel)
    Wg,         \* ContextGuard.Wg: the wait group's counter
    tpc,        \* where each goroutine calling Start and Stop is
    terr,       \* the error its last Start or Stop returned ("" is nil)
    wpc         \* each worker: idle, running (registered while Quit was open),
                \* late (registered after Quit was closed)

callVars == <<pc, call, ret>>

lifeVars == <<startOnce, stopOnce, Quit, Wg, tpc, terr, wpc>>

vars == <<quotes, pc, call, ret, startOnce, stopOnce, Quit, Wg, tpc, terr, wpc>>

Threads == 1..NumThreads

Workers == 1..NumWorkers

NoCall == [op |-> "none"]

NoRet == [amt |-> <<>>, blob |-> None, handled |-> FALSE, err |-> "",
          panic |-> FALSE, queried |-> FALSE]

\* NewAuxTrafficShaper: the configuration and a guard with an open Quit
\* channel; both sync.Once and the wait group are zero values.
Init ==
    /\ quotes = [s \in {} |-> 0]
    /\ pc = "idle"
    /\ call = NoCall
    /\ ret = NoRet
    /\ startOnce = [done |-> FALSE, m |-> 0]
    /\ stopOnce = [done |-> FALSE, m |-> 0]
    /\ Quit = "open"
    /\ Wg = 0
    /\ tpc = [t \in Threads |-> "idle"]
    /\ terr = [t \in Threads |-> ""]
    /\ wpc = [w \in Workers |-> "idle"]

\* A run-time panic (a division by zero, closing a closed channel) that
\* nothing recovers ends the process.
Alive == pc # "panicked" /\ Quit # "closedTwice"

(***************************************************************************)
(* The quote subsystem.                                                    *)
(***************************************************************************)

\* The RFQ manager accepts (or replaces) a quote.
AcceptQuote(scid, q) ==
    /\ Alive
    /\ Cardinality(DOMAIN quotes \cup {scid}) <= MaxQuotes
    /\ quotes' = [s \in DOMAIN quotes \cup {scid} |->
                    IF s = scid THEN q ELSE quotes[s]]
    /\ UNCHANGED <<callVars, lifeVars>>

\* The RFQ manager drops a quote.
ExpireQuote(scid) ==
    /\ Alive
    /\ scid \in DOMAIN quotes
    /\ quotes' = [s \in DOMAIN quotes \ {scid} |-> quotes[s]]
    /\ UNCHANGED <<callVars, lifeVars>>

(***************************************************************************)
(* The forwarding switch calling the three operations.  None of them reads *)
(* the guard: a call is made, and runs, in any lifecycle state.            *)
(***************************************************************************)

\* CallHandleTraffic behind the guard: refused once Quit is closed.
CallHandleTrafficGated(chanID, fundingBlob) ==
    /\ Alive
    /\ Quit = "open"
    /\ pc = "idle"
    /\ pc' = "called"
    /\ call' = [op |-> "HandleTraffic", chanID |-> chanID,
                fundingBlob |-> fundingBlob]
    /\ UNCHANGED <<quotes, ret, lifeVars>>

CallHandleTraffic(chanID, fundingBlob) ==
    /\ Alive
    /\ pc = "idle"
    /\ pc' = "called"
    /\ call' = [op |-> "HandleTraffic", chanID |-> chanID,
                fundingBlob |-> fundingBlob]
    /\ UNCHANGED <<quotes, ret, lifeVars>>

CallPaymentBandwidth(htlcBlob, commitmentBlob) ==
    /\ Alive
    /\ pc = "idle"
    /\ pc' = "called"
    /\ call' = [op |-> "PaymentBandwidth", htlcBlob |-> htlcBlob,
                commitmentBlob |-> commitmentBlob]
    /\ UNCHANGED <<quotes, ret, lifeVars>>

CallProduceHtlcExtraData(totalAmount, htlcCustomRecords) ==
    /\ Alive
    /\ pc = "idle"
    /\ pc' = "called"
    /\ call' = [op |-> "ProduceHtlcExtraData", totalAmount |-> totalAmount,
                htlcCustomRecords |-> htlcCustomRecords]
    /\ UNCHANGED <<quotes, ret, lifeVars>>

\* The body of the method called, run to its return (or to its panic).
Outcome ==
    CASE call.op = "HandleTraffic" -> HandleTraffic(call.fundingBlob)
      [] call.op = "PaymentBandwidth" ->
            PaymentBandwidth(call.htlcBlob, call.commitmentBlob, quotes)
      [] call.op = "ProduceHtlcExtraData" ->
            ProduceHtlcExtraData(call.totalAmount, call.htlcCustomRecords, quotes)

Return ==
    /\ Alive
    /\ pc = "called"
    /\ ret' = Outcome
    /\ pc' = IF Outcome.panic THEN "panicked" ELSE "returned"
    /\ UNCHANGED <<quotes, call, lifeVars>>

\* The caller has used the result and is ready for its next call.
Consume ==
    /\ Alive
    /\ pc = "returned"
    /\ pc' = "idle"
    /\ call' = NoCall
    /\ ret' = NoRet
    /\ UNCHANGED <<quotes, lifeVars>>

\* The caller hands the blob a successful ProduceHtlcExtraData returned back
\* to ProduceHtlcExtraData, as the HTLC's custom records, with any amount;
\* it keeps the result of the call before while the new call runs.
Refeed(totalAmount) ==
    /\ Alive
    /\ pc = "returned"
    /\ call.op = "ProduceHtlcExtraData"
    /\ ret.err = ""
    /\ ~IsNone(ret.blob)
    /\ pc' = "called"
    /\ call' = [op |-> "ProduceHtlcExtraData", totalAmount |-> totalAmount,
                htlcCustomRecords |-> ParseCustomRecords(UnsafeFromSome(ret.blob))]
    /\ UNCHANGED <<quotes, ret, lifeVars>>

(***************************************************************************)
(* Start and Stop.  sync.Once.Do(f) returns at once when done is set;      *)
(* otherwise it takes the Once's mutex, and, if done is still unset, runs  *)
(* f, sets done and releases the mutex.                                    *)
(***************************************************************************)

AtRest(t) == tpc[t] \in {"idle", "Start:ret", "Stop:ret"}

\* Start is called: startOnce.Do's load of done.
Start(t) ==
    /\ Alive
    /\ AtRest(t)
    /\ tpc' = [tpc EXCEPT ![t] = IF startOnce.done THEN "Start:ret" ELSE "Start:lock"]
    /\ terr' = [terr EXCEPT ![t] = ""]
    /\ UNCHANGED <<quotes, callVars, startOnce, stopOnce, Quit, Wg, wpc>>

\* startOnce.Do's slow path: the mutex, the second look at done, then f (the
\* log line), done and the unlock.
StartOnceDo(t) ==
    /\ Alive
    /\ tpc[t] = "Start:lock"
    /\ startOnce.m = 0
    /\ startOnce' = [done |-> TRUE, m |-> 0]
    /\ tpc' = [tpc EXCEPT ![t] = "Start:ret"]
    /\ UNCHANGED <<quotes, callVars, stopOnce, Quit, Wg, terr, wpc>>

\* Stop is called: stopOnce.Do's load of done.
Stop(t) ==
    /\ Alive
    /\ AtRest(t)
    /\ tpc' = [tpc EXCEPT ![t] = IF stopOnce.done THEN "Stop:ret" ELSE "Stop:lock"]
    /\ terr' = [terr EXCEPT ![t] = ""]
    /\ UNCHANGED <<quotes, callVars, startOnce, stopOnce, Quit, Wg, wpc>>

\* The slow path without the second look at done.
StopOnceLockNoRecheck(t) ==
    /\ Alive
    /\ tpc[t] = "Stop:lock"
    /\ stopOnce.m = 0
    /\ tpc' = [tpc EXCEPT ![t] = "Stop:close"]
    /\ stopOnce' = [stopOnce EXCEPT !.m = t]
    /\ UNCHANGED <<quotes, callVars, startOnce, Quit, Wg, terr, wpc>>

\* stopOnce.Do's slow path: the mutex and the second look at done.
StopOnceLock(t) ==
    /\ Alive
    /\ tpc[t] = "Stop:lock"
    /\ stopOnce.m = 0
    /\ IF stopOnce.done
       THEN /\ tpc' = [tpc EXCEPT ![t] = "Stop:ret"]
            /\ UNCHANGED stopOnce
       ELSE /\ tpc' = [tpc EXCEPT ![t] = "Stop:close"]
            /\ stopOnce' = [stopOnce EXCEPT !.m = t]
    /\ UNCHANGED <<quotes, callVars, startOnce, Quit, Wg, terr, wpc>>

\* close(s.Quit); closing a closed channel panics.
StopClose(t) ==
    /\ Alive
    /\ tpc[t] = "Stop:close"
    /\ Quit' = IF Quit = "open" THEN "closed" ELSE "closedTwice"
    /\ tpc' = [tpc EXCEPT ![t] = "Stop:wait"]
    /\ UNCHANGED <<quotes, callVars, startOnce, stopOnce, Wg, terr, wpc>>

\* s.Wg.Wait() returns when the counter is zero; then done is set, the mutex
\* released and Stop returns stopErr.
StopWait(t) ==
    /\ Alive
    /\ tpc[t] = "Stop:wait"
    /\ Wg = 0
    /\ stopOnce' = [done |-> TRUE, m |-> 0]
    /\ tpc' = [tpc EXCEPT ![t] = "Stop:ret"]
    /\ UNCHANGED <<quotes, callVars, startOnce, Quit, Wg, terr, wpc>>

(***************************************************************************)
(* Work registered with the guard's wait group (Wg.Add(1) ... Wg.Done()).  *)
(***************************************************************************)

WorkerBegin(w) ==
    /\ Alive
    /\ wpc[w] = "idle"
    /\ Wg' = Wg + 1
    /\ wpc' = [wpc EXCEPT ![w] = IF Quit = "open" THEN "running" ELSE "late"]
    /\ UNCHANGED <<quotes, callVars, startOnce, stopOnce, Quit, tpc, terr>>

WorkerDone(w) ==
    /\ Alive
    /\ wpc[w] # "idle"
    /\ Wg' = Wg - 1
    /\ wpc' = [wpc EXCEPT ![w] = "idle"]
    /\ UNCHANGED <<quotes, callVars, startOnce, stopOnce, Quit, tpc, terr>>

(***************************************************************************)
(* Specifications.                                                         *)
(*                                                                         *)
(* Spec is the whole shaper: concurrent Start and Stop, registered work,   *)
(* the quote subsystem and a caller of the three operations, with a few    *)
(* arguments of each kind.  SpecCalls is the three operations over the     *)
(* wide argument sets, the guard left as constructed (none of the three    *)
(* reads it).                                                              *)
(***************************************************************************)

\* The arguments Spec's caller uses.
FewQuotes == [BidPrice : {Big(2)}, AssetID : {Some("assetA")}]

FewSCIDs == {1}

FewHtlcBlobs == {Some(Serialize([rfqID |-> <<7, 1>>]))}

FewCommitmentBlobs == {Some(EncodeCommitment(<<Big(500)>>, <<Big(1)>>))}

FewTotalAmounts == {Big(12345)}

FewCustomRecordSets == {NoRecords, [rfqID |-> <<7, 1>>]}

Next ==
    \/ \E s \in FewSCIDs, q \in FewQuotes : AcceptQuote(s, q)
    \/ \E s \in FewSCIDs : ExpireQuote(s)
    \/ \E c \in ChanIDs, b \in FundingBlobs : CallHandleTraffic(c, b)
    \/ \E h \in FewHtlcBlobs, c \in FewCommitmentBlobs : CallPaymentBandwidth(h, c)
    \/ \E t \in FewTotalAmounts, r \in FewCustomRecordSets :
            CallProduceHtlcExtraData(t, r)
    \/ Return
    \/ Consume
    \/ \E t \in Threads : Start(t)
    \/ \E t \in Threads : StartOnceDo(t)
    \/ \E t \in Threads : Stop(t)
    \/ \E t \in Threads : StopOnceLock(t)
    \/ \E t \in Threads : StopClose(t)
    \/ \E t \in Threads : StopWait(t)
    \/ \E w \in Workers : WorkerBegin(w)
    \/ \E w \in Workers : WorkerDone(w)

Spec == Init /\ [][Next]_vars

NextCalls ==
    \/ \E s \in SCIDs, q \in Quotes : AcceptQuote(s, q)
    \/ \E s \in SCIDs : ExpireQuote(s)
    \/ \E c \in ChanIDs, b \in FundingBlobs : CallHandleTraffic(c, b)
    \/ \E h \in HtlcBlobs, c \in CommitmentBlobs : CallPaymentBandwidth(h, c)
    \/ \E t \in TotalAmounts, r \in CustomRecordSets : CallProduceHtlcExtraData(t, r)
    \/ Return
    \/ Consume

SpecCalls == Init /\ [][NextCalls]_vars

\* SpecRefeed is ProduceHtlcExtraData called on HTLCs that carry a quote
\* identifier, and called again on the blobs it returned, while the quotes
\* change between the calls.
RefeedQuotes ==
    [BidPrice : {Big(0), Big(1), Big(1000)}, AssetID : {None, Some("assetA")}]

RefeedRecordSets ==
    {[rfqID |-> r] : r \in RfqIDs}
    \cup {[amounts |-> a, rfqID |-> <<7, 1>>] :
            a \in {<<>>, <<NewAssetBalance("assetB", Big(0))>>,
                   <<NewAssetBalance("assetB", Big(1))>>}}

NextRefeed ==
    \/ \E s \in SCIDs, q \in RefeedQuotes : AcceptQuote(s, q)
    \/ \E s \in SCIDs : ExpireQuote(s)
    \/ \E t \in TotalAmounts, r \in RefeedRecordSets : CallProduceHtlcExtraData(t, r)
    \/ Return
    \/ \E t \in TotalAmounts : Refeed(t)
    \/ Consume

SpecRefeed == Init /\ [][NextRefeed]_vars

(***************************************************************************)
(* Properties.  What a property says of a call it reads from the call's    *)
(* arguments, from the quote map at the step the call returns, and from    *)
(* the result.                                                             *)
(***************************************************************************)

\* The step by which the call in progress returns.
Returning(op) == pc = "called" /\ pc' = "returned" /\ call.op = op

Returned(op) == pc = "returned" /\ call.op = op

\* PaymentBandwidth's arguments, decoded.
BothBlobsDecode ==
    /\ ~IsNone(call.htlcBlob) /\ ~IsNone(call.commitmentBlob)
    /\ DecodeCommitment(UnsafeFromSome(call.commitmentBlob)).err = ""
    /\ DecodeHtlc(UnsafeFromSome(call.htlcBlob)).err = ""

ArgHtlc == DecodeHtlc(UnsafeFromSome(call.htlcBlob)).val

ArgLocalBalance ==
    SumSeq(DecodeCommitment(UnsafeFromSome(call.commitmentBlob)).val.LocalOutputs)

\* The HTLC is priced already and its amount fits the local balance.
PricedAndFits ==
    /\ Sum(ArgHtlc.Amounts) # <<>>
    /\ BigLeq(Sum(ArgHtlc.Amounts), ArgLocalBalance)

\* ProduceHtlcExtraData's records, decoded.
RecordsDecode ==
    /\ call.htlcCustomRecords # NoRecords
    /\ DecodeHtlc(Serialize(call.htlcCustomRecords)).err = ""

ArgRecords == DecodeHtlc(Serialize(call.htlcCustomRecords)).val

\* The quote the map holds for an HTLC's RFQ ID.
HasQuote(htlc) == ~IsNone(htlc.RfqID) /\ Scid(htlc.RfqID[1]) \in DOMAIN quotes

QuoteOf(htlc) == quotes[Scid(htlc.RfqID[1])]

\* NewMSatFromSatoshis(DefaultOnChainHtlcAmount): 354 satoshis in milli-satoshis.
DustFloorMSat == Big(354000)

\* C1: on PaymentBandwidth's quoted path (both blobs decode, the HTLC is not
\* an already-priced amount that fits the balance, the RFQ ID is present and
\* its quote is found) the call returns the exact product localBalance *
\* bidPrice with no error, or, when the product does not fit 64 bits, an
\* error; never the wrapped product.
C1_ExactProductOrOverflowError ==
    [][(/\ Returning("PaymentBandwidth")
        /\ BothBlobsDecode
        /\ ~PricedAndFits
        /\ HasQuote(ArgHtlc))
       => LET product == BigMul(ArgLocalBalance, QuoteOf(ArgHtlc).BidPrice)
          IN  IF FitsU64(product)
              THEN ret'.err = "" /\ ret'.amt = product
              ELSE ret'.err # ""]_vars

\* C2, as claimed: every success of ProduceHtlcExtraData returns an amount
\* of at least the dust floor.
C2_EverySuccessAtLeastDust ==
    (Returned("ProduceHtlcExtraData") /\ ret.err = "")
        => BigLeq(DustFloorMSat, ret.amt)

\* The call took the rewriting path: records that decode to an HTLC without
\* an asset amount.
RewritingPath == RecordsDecode /\ Sum(ArgRecords.Amounts) = <<>>

\* C2, amended: a success on the rewriting path returns exactly the
\* on-chain minimum, which is the dust floor; a success on the other two
\* paths (no records, an HTLC priced already) returns the amount it was
\* given, whatever it is.
C2_RewrittenAtDustElseUnchanged ==
    (Returned("ProduceHtlcExtraData") /\ ret.err = "")
        => IF RewritingPath
           THEN ret.amt = DustFloorMSat /\ BigLeq(DustFloorMSat, ret.amt)
           ELSE ret.amt = call.totalAmount

\* A rewritten HTLC whose amount was below the floor.
C2_Witness ==
    /\ Returned("ProduceHtlcExtraData") /\ ret.err = ""
    /\ RewritingPath
    /\ BigLess(call.totalAmount, DustFloorMSat)
    /\ ret.amt = DustFloorMSat

\* C3, as claimed: whenever the HTLC's RFQ ID is present and its SCID is
\* not in the quote map, both methods fail with the quote-not-found error.
C3_MissingQuoteAlwaysNotFound ==
    [][/\ (Returning("PaymentBandwidth") /\ BothBlobsDecode
             /\ ~IsNone(ArgHtlc.RfqID) /\ ~HasQuote(ArgHtlc))
            => ret'.err = "no accepted quote found for RFQ ID"
       /\ (Returning("ProduceHtlcExtraData") /\ RecordsDecode
             /\ ~IsNone(ArgRecords.RfqID) /\ ~HasQuote(ArgRecords))
            => ret'.err = "no accepted quote found for RFQ ID"]_vars

\* C3, amended: the same, for an HTLC that is not priced already: in
\* PaymentBandwidth one whose asset amount is zero or above the local
\* balance, in ProduceHtlcExtraData one whose asset amount is zero.
C3_UnpricedMissingQuoteNotFound ==
    [][/\ (Returning("PaymentBandwidth") /\ BothBlobsDecode /\ ~PricedAndFits
             /\ ~IsNone(ArgHtlc.RfqID) /\ ~HasQuote(ArgHtlc))
            => ret'.err = "no accepted quote found for RFQ ID"
       /\ (Returning("ProduceHtlcExtraData") /\ RewritingPath
             /\ ~IsNone(ArgRecords.RfqID) /\ ~HasQuote(ArgRecords))
            => ret'.err = "no accepted quote found for RFQ ID"]_vars

\* PaymentBandwidth failed so for an HTLC with an amount above the balance.
C3_Witness ==
    /\ Returned("PaymentBandwidth")
    /\ ret.err = "no accepted quote found for RFQ ID"
    /\ Sum(ArgHtlc.Amounts) # <<>>
    /\ ArgLocalBalance # <<>>

\* The asset units a rewritten blob carries.
UnitsIn(blob) == DecodeHtlc(UnsafeFromSome(blob)).val.Amounts[1].Amount

\* C4: the asset-unit count of a rewritten HTLC is
\* floor(floor(totalAmount * 10 / bidPrice) / 10) of the exact product
\* totalAmount * 10, and it is within half a unit of totalAmount / bidPrice:
\* 2 * (totalAmount - units * bidPrice) <= bidPrice.
C4_UnitsExactWithinHalfUnit ==
    [][(/\ Returning("ProduceHtlcExtraData")
        /\ RewritingPath
        /\ HasQuote(ArgRecords)
        /\ QuoteOf(ArgRecords).BidPrice # <<>>
        /\ ~IsNone(QuoteOf(ArgRecords).AssetID))
       => LET price == QuoteOf(ArgRecords).BidPrice
              units == UnitsIn(ret'.blob)
          IN  /\ units = BigDiv(BigDiv(BigMul(call.totalAmount, Big(10)), price),
                                Big(10))
              /\ BigLeq(BigMul(Big(2),
                               BigSub(call.totalAmount, BigMul(units, price))),
                        price)]_vars

\* C5, as claimed: an already-priced HTLC that fits the balance gets the
\* sentinel, the sentinel is the largest value of the type, and no success
\* returns more.
C5_SentinelIsMaximum ==
    Returned("PaymentBandwidth")
        => /\ (BothBlobsDecode /\ PricedAndFits)
                => ret.err = "" /\ ret.amt = MaxUint64
           /\ ret.err = "" => BigLeq(ret.amt, MaxUint64)

\* 2,100,000,000,000,000,000: 21 million coins in milli-satoshis.
SupplyMSat == BigMul(BigMul(Big(2100000), Big(1000000)), Big(1000000))

\* C5, amended: an already-priced HTLC that fits the balance gets, with no
\* error and without a look at the quotes, the sentinel
\* 2,100,000,000,000,000,000 (the satoshi supply in milli-satoshis), which
\* is below the largest value of the type.
C5_SentinelIsSupply ==
    (Returned("PaymentBandwidth") /\ BothBlobsDecode /\ PricedAndFits)
        => /\ ret.err = "" /\ ret.amt = SupplyMSat /\ ~ret.queried
           /\ BigLess(ret.amt, MaxUint64)

\* The sentinel for an HTLC whose RFQ ID has no quote.
C5_Witness ==
    /\ Returned("PaymentBandwidth") /\ BothBlobsDecode /\ PricedAndFits
    /\ ~IsNone(ArgHtlc.RfqID) /\ ~HasQuote(ArgHtlc)
    /\ ret.amt = SupplyMSat

\* C6: under any interleaving of Start and Stop calls, every call returns
\* no error; Quit is never closed a second time; a Stop call, the first or
\* a later one, has returned only with Quit closed, the Once done and the
\* work registered before the close finished; and Quit, once closed, stays
\* closed, whatever is called later.
C6_StartStopOnce ==
    /\ [](\A t \in Threads : terr[t] = "")
    /\ [](Quit # "closedTwice")
    /\ [](\A t \in Threads :
            tpc[t] = "Stop:ret"
                => /\ Quit = "closed"
                   /\ stopOnce.done
                   /\ \A w \in Workers : wpc[w] # "running")
    /\ [][Quit = "closed" => Quit' = "closed"]_vars

\* Two Stop calls have returned, and a Start has run.
C6_Witness ==
    /\ \E t1, t2 \in Threads : t1 # t2 /\ tpc[t1] = "Stop:ret" /\ tpc[t2] = "Stop:ret"
    /\ startOnce.done
    /\ Quit = "closed"

\* C7, as claimed: once Quit is closed no call is accepted, and no Stop
\* returns while a call is in flight.
C7_NoCallsAfterShutdown ==
    [][/\ Quit = "closed" => ~(pc = "idle" /\ pc' = "called")
       /\ \A t \in Threads :
            (tpc[t] # "Stop:ret" /\ tpc'[t] = "Stop:ret") => pc # "called"]_vars

\* C7, amended: the guard gates none of the three operations.  In every
\* lifecycle state, also after Quit is closed, an idle caller can make each
\* of the three calls; and Stop waits for the wait group alone: with the
\* counter at zero it returns, a call in flight or not.
C7_CallsNeverGated ==
    Alive =>
        /\ pc = "idle" =>
            /\ ENABLED (\E c \in ChanIDs, b \in FundingBlobs : CallHandleTraffic(c, b))
            /\ ENABLED (\E h \in FewHtlcBlobs, c \in FewCommitmentBlobs :
                            CallPaymentBandwidth(h, c))
            /\ ENABLED (\E t \in FewTotalAmounts, r \in FewCustomRecordSets :
                            CallProduceHtlcExtraData(t, r))
        /\ \A t \in Threads : (tpc[t] = "Stop:wait" /\ Wg = 0) => ENABLED StopWait(t)

\* A call in flight after a Stop has returned.
C7_Witness ==
    /\ Quit = "closed"
    /\ \E t \in Threads : tpc[t] = "Stop:ret"
    /\ pc = "called"

\* C8: HandleTraffic's result is decided by the funding blob alone: absent
\* gives (false, nil), an open-channel record gives (true, nil), anything
\* else gives (false, error), and never (true, error); whatever the channel
\* ID, the quotes and the lifecycle state.
C8_ClassifiedByBlob ==
    Returned("HandleTraffic") =>
        /\ call.fundingBlob = None => ~ret.handled /\ ret.err = ""
        /\ call.fundingBlob = Some(OpenChannelBlob) => ret.handled /\ ret.err = ""
        /\ call.fundingBlob \notin {None, Some(OpenChannelBlob)}
                => ~ret.handled /\ ret.err # ""
        /\ ~(ret.handled /\ ret.err # "")

\* A blob that does not decode, classified after shutdown with a quote held.
C8_Witness ==
    /\ Returned("HandleTraffic")
    /\ call.fundingBlob = Some(Garbage)
    /\ ~ret.handled /\ ret.err # ""
    /\ Quit = "closed"
    /\ DOMAIN quotes # {}

\* C9: with no custom records ProduceHtlcExtraData returns the amount it
\* was given, no blob and no error, and does not ask for the quotes;
\* whatever the amount and the quotes held.
C9_EmptyRecordsPassThrough ==
    (Returned("ProduceHtlcExtraData") /\ call.htlcCustomRecords = NoRecords)
        => /\ ret.amt = call.totalAmount
           /\ ret.blob = None
           /\ ret.err = ""
           /\ ~ret.queried

\* Such a call with a quote held and an amount above the on-chain minimum.
C9_Witness ==
    /\ Returned("ProduceHtlcExtraData") /\ call.htlcCustomRecords = NoRecords
    /\ DOMAIN quotes # {}
    /\ BigLess(DustFloorMSat, call.totalAmount)
    /\ ret.amt = call.totalAmount

\* C10: ProduceHtlcExtraData ends by returning, a result or an error; it
\* never ends in a panic.
C10_ProduceAlwaysReturns ==
    ~(pc = "panicked" /\ call.op = "ProduceHtlcExtraData")

\* The result of a call that rewrote an unpriced HTLC: a success that asked
\* for the quotes and returned a blob.
Rewrote(r) == r.err = "" /\ ~r.panic /\ r.queried /\ ~IsNone(r.blob)

\* The call in progress is made on the blob of the result still held.
Refed == pc = "called" /\ call.op = "ProduceHtlcExtraData" /\ Rewrote(ret)

\* The HTLC in a returned blob.
HtlcIn(blob) == DecodeHtlc(UnsafeFromSome(blob)).val

\* C11: pricing happens at most once.  The record a successful rewrite of an
\* unpriced HTLC returns carries exactly one balance, of a nonzero amount,
\* and the quote identifier it came with; and ProduceHtlcExtraData called
\* again on that record, with any amount and whatever the quotes are by
\* then, returns that amount and the same blob, without an error and
\* without pricing again.
C11_PricedAtMostOnce ==
    [][ /\ (pc = "called" /\ call.op = "ProduceHtlcExtraData"
            /\ ret = NoRet /\ Rewrote(ret'))
            => /\ Len(HtlcIn(ret'.blob).Amounts) = 1
               /\ HtlcIn(ret'.blob).Amounts[1].Amount # <<>>
               /\ HtlcIn(ret'.blob).RfqID = ArgRecords.RfqID
        /\ (Refed /\ pc' # "called")
            => /\ pc' = "returned"
               /\ ret'.err = ""
               /\ ret'.amt = call.totalAmount
               /\ ret'.blob = ret.blob
               /\ ~ret'.queried ]_vars

\* A rewrite that came to at least one asset unit is not priced again: fed
\* back, it returns the amount and the blob it was given.
NonzeroRewriteNotRepriced ==
    [][ (Refed /\ HtlcIn(ret.blob).Amounts[1].Amount # <<>> /\ pc' # "called")
            => /\ pc' = "returned"
               /\ ret'.err = ""
               /\ ret'.amt = call.totalAmount
               /\ ret'.blob = ret.blob
               /\ ~ret'.queried ]_vars

=============================================================================
